---------------------------- MODULE Spec2Model ----------------------------
(***************************************************************************)
(* A model of IXRDashboard (src/ixr_flow/gui/ixrdashboard.py): the timer   *)
(* driven _update tick, the two bounded histories it maintains and the     *)
(* sample it pushes to the LSL outlet.                                     *)
(*                                                                         *)
(* Numbers.  The program computes in IEEE doubles.  The model computes in  *)
(* fixed point: a raw engagement index is a multiple of 1/RawUnit, a       *)
(* normalised value a multiple of 1/NormUnit (rounded down), and the two   *)
(* non-finite doubles the pipeline can produce are the values NaN and Inf. *)
(* Band powers are drawn so that every raw index is exact in 1/RawUnit.    *)
(***************************************************************************)
EXTENDS Integers, Sequences, FiniteSets, TLC

(***************************************************************************)
(* Bounds of the model.                                                    *)
(***************************************************************************)
\* timer timeouts delivered in one run
MaxTicks == 3

(***************************************************************************)
(* Number representation.                                                  *)
(***************************************************************************)
\* the double 1.0 of a raw engagement index (the seed 1 of engagement_calib)
RawUnit == 12
\* the double 1.0 of a normalised value (the seed 1 of engagement_hist)
NormUnit == 100
\* set_parameters takes seconds; the model passes them in 1/SecondsDen s
SecondsDen == 20
\* np.nan and np.inf
NaN == -1
Inf == -2

IsFinite(x) == x >= 0

Min(a, b) == IF a < b THEN a ELSE b
Max(a, b) == IF a > b THEN a ELSE b

RECURSIVE SeqSum(_)
SeqSum(s) == IF s = <<>> THEN 0 ELSE Head(s) + SeqSum(Tail(s))

RECURSIVE SeqSumSq(_)
SeqSumSq(s) == IF s = <<>> THEN 0 ELSE Head(s) * Head(s) + SeqSumSq(Tail(s))

AllFinite(s) == \A i \in 1..Len(s) : IsFinite(s[i])

\* float addition and division by a positive integer, with nan and inf
FAdd(a, b) ==
    IF a = NaN \/ b = NaN THEN NaN
    ELSE IF a = Inf \/ b = Inf THEN Inf
    ELSE a + b

FDivInt(a, k) == IF IsFinite(a) THEN a \div k ELSE a

(***************************************************************************)
(* Configuration fixed in __init__ (lines 65-73) and the channel registry. *)
(***************************************************************************)
update_speed_ms == 100
\* BoardShim.get_sampling_rate of the 4-channel headband the code assumes
eeg_sampling_rate == 256
\* power_metric_window_s = 1.5, as a fraction
power_metric_window_num == 3
power_metric_window_den == 2
display_ref == FALSE

\* DataFilter.get_nearest_power_of_two
NearestPowerOfTwo(n) ==
    LET P == {1, 2, 4, 8, 16, 32, 64, 128, 256, 512, 1024}
        Dist(p) == IF p > n THEN p - n ELSE n - p
    IN  CHOOSE p \in P : \A q \in P : Dist(p) < Dist(q) \/ (Dist(p) = Dist(q) /\ p >= q)

psd_size == NearestPowerOfTwo(eeg_sampling_rate)

\* the 4 EEG channels and the reference channel ('other_channels') of the board
eeg_channels ==
    << [ch_number |-> 1, reference |-> FALSE, display |-> TRUE],
       [ch_number |-> 2, reference |-> FALSE, display |-> TRUE],
       [ch_number |-> 3, reference |-> FALSE, display |-> TRUE],
       [ch_number |-> 4, reference |-> FALSE, display |-> TRUE],
       [ch_number |-> 5, reference |-> TRUE,  display |-> display_ref] >>

SignalChannels == {eeg_channels[i].ch_number : i \in {j \in 1..Len(eeg_channels) : ~eeg_channels[j].reference}}


(***************************************************************************)
(* The per-tick pipeline of _update as pure functions of the pulled data.  *)
(* An EEG window is [cols, variance, bands]: the number of samples per     *)
(* row, np.var of each signal channel's raw slice, and the band powers     *)
(* get_band_power returns for each signal channel.                         *)
(***************************************************************************)

\* lines 269-270, 356-357: len(row[-int(power_metric_window_s * rate):])
PmSliceLen(cols) ==
    Min(cols, (power_metric_window_num * eeg_sampling_rate) \div power_metric_window_den)

\* lines 265-301: variance / 500000 > 0.04, reference channels skipped
BadChannels(variance) ==
    {c \in SignalChannels : variance[c] * 100 > 4 * 500000}

\* line 387: (beta / (theta + alpha)) / gamma on numpy doubles
BandRatio(b) ==
    LET q == IF b.theta + b.alpha = 0
             THEN (IF b.beta = 0 THEN NaN ELSE Inf)
             ELSE b.beta
    IN  IF q = NaN THEN NaN
        ELSE IF b.gamma = 0 THEN (IF q = 0 THEN NaN ELSE Inf)
        ELSE IF q = Inf THEN Inf
        ELSE (RawUnit * b.beta) \div ((b.theta + b.alpha) * b.gamma)

\* lines 342-392: the loop over the displayed channels
RECURSIVE EngagementLoop(_, _, _, _)
EngagementLoop(chs, acc, w, bad) ==
    IF chs = <<>> THEN acc
    ELSE LET ch == Head(chs)
         IN  IF ~ch.display THEN EngagementLoop(Tail(chs), acc, w, bad)
             ELSE IF PmSliceLen(w.cols) < psd_size
                  THEN EngagementLoop(Tail(chs), acc, w, bad)
             ELSE IF ch.reference THEN EngagementLoop(Tail(chs), acc, w, bad)
             ELSE IF ch.ch_number \in bad
                  THEN EngagementLoop(Tail(chs), acc, w, bad)
             ELSE EngagementLoop(Tail(chs), FAdd(acc, BandRatio(w.bands[ch.ch_number])), w, bad)

\* variant: the sum is averaged over all 4 channels, bad ones included
FinalIndexOverAll(acc, nbad) ==
    FDivInt(acc, 4)

\* lines 408-411
FinalIndex(acc, nbad) ==
    IF nbad # 4 THEN FDivInt(acc, 4 - nbad) ELSE 0

\* lines 265-411: the raw engagement index of a tick
RawEngagementIdx(w) ==
    LET bad == BadChannels(w.variance)
    IN  FinalIndex(EngagementLoop(eeg_channels, 0, w, bad), Cardinality(bad))

\* lines 326-327: np.clip(np.mean(np.abs(gyro)) / 50, 0, 1); the mean of an
\* empty array is nan
HeadMovement(g) ==
    IF g.cols = 0 THEN NaN
    ELSE Max(0, Min(NormUnit, (g.mean_abs * NormUnit) \div 50))

\* variant: the eviction test runs before the append, as for engagement_hist
CalibEvictFirst(calib, idx, cap) ==
    Append(IF Len(calib) > cap THEN Tail(calib) ELSE calib, idx)

\* variant: after the append the list is cut down to its capacity
CalibTrimToCapacity(calib, idx, cap) ==
    LET a == Append(calib, idx)
    IN  IF Len(a) > cap THEN SubSeq(a, Len(a) - cap + 1, Len(a)) ELSE a

\* variant: at capacity the newest element is dropped instead of the oldest
CalibDropNewest(calib, idx, cap) ==
    IF Len(calib) + 1 > cap THEN calib ELSE Append(calib, idx)

\* lines 418-420
CalibAppend(calib, idx, cap) ==
    LET a == Append(calib, idx)
    IN  IF Len(a) > cap THEN Tail(a) ELSE a

\* variant: the history is cut down to its capacity, not by one element
HistEvictToCapacity(hist, cap) ==
    IF Len(hist) > cap THEN SubSeq(hist, Len(hist) - cap + 1, Len(hist)) ELSE hist

\* lines 422-423
HistEvict(hist, cap) ==
    IF Len(hist) > cap THEN Tail(hist) ELSE hist

\* the integer part of the square root, by bisection of lo..hi
RECURSIVE IsqrtIn(_, _, _)
IsqrtIn(m, lo, hi) ==
    IF lo = hi THEN lo
    ELSE LET mid == (lo + hi + 1) \div 2
         IN  IF mid * mid <= m THEN IsqrtIn(m, mid, hi) ELSE IsqrtIn(m, lo, mid - 1)
Isqrt(m) == IsqrtIn(m, 0, Min(m, 32768))

\* line 426: (idx - np.mean(calib)) / np.std(calib), in 1/NormUnit, rounded
\* down.  With n = len, S = sum, Q = sum of squares this is
\* (n*idx - S) / sqrt(n*Q - S*S); 0/0 and anything over nan is nan.
ZScore(calib, idx) ==
    IF ~AllFinite(calib) \/ ~IsFinite(idx) THEN NaN
    ELSE LET n  == Len(calib)
             S  == SeqSum(calib)
             N  == n * idx - S
             D2 == n * SeqSumSq(calib) - S * S
             A  == NormUnit * NormUnit * N * N
         IN  IF D2 = 0 THEN NaN
             ELSE LET fl == Isqrt(A \div D2)
                  IN  IF N >= 0 THEN fl
                      ELSE IF fl * fl * D2 = A THEN 0 - fl ELSE 0 - (fl + 1)

\* line 429: np.clip leaves nan as it is
Clip(v, lo, hi) ==
    IF v = NaN THEN NaN ELSE IF v < lo THEN lo ELSE IF v > hi THEN hi ELSE v

\* lines 426-429; scale is in tenths, center in 1/NormUnit
Normalise(calib, idx, scale, center) ==
    LET z == ZScore(calib, idx)
    IN  IF z = NaN THEN NaN
        ELSE Clip((z * 10) \div (2 * scale) + center, (5 * NormUnit) \div 100, NormUnit)

RECURSIVE WeightedSum(_, _)
WeightedSum(hist, count) ==
    IF hist = <<>> THEN 0 ELSE Head(hist) * count + WeightedSum(Tail(hist), count + 1)

\* line 437: sumweight = 0 + 1 + ... + (len - 1)
SumWeight(hist) == (Len(hist) * (Len(hist) - 1)) \div 2

\* lines 433-439; nan * 0 is nan, and x / 0 on a numpy double is nan or inf
WeightedMean(hist) ==
    IF ~AllFinite(hist) THEN NaN
    ELSE IF SumWeight(hist) = 0 THEN NaN
    ELSE WeightedSum(hist, 0) \div SumWeight(hist)

\* line 442: engagement + (1 - head_movement) * head_impact
PowerMetric(eng, hm, impact) ==
    IF eng = NaN \/ hm = NaN THEN NaN
    ELSE eng + ((NormUnit - hm) * impact) \div NormUnit

\* lines 124-125: int(seconds * 1000 / update_speed_ms)
ToTicks(seconds) == (seconds * 1000) \div (update_speed_ms * SecondsDen)

(***************************************************************************)
(* Inputs: what set_parameters is called with and what the board reports.  *)
(***************************************************************************)
\* the arguments of set_parameters: calib_length and power_length in
\* 1/SecondsDen s, scale in tenths, offset and head_impact in 1/NormUnit.
\* The defaults (capacities 6000 and 100) and capacities 3 and 2, 2 and 1,
\* 1 and 0, 0 and 1.
ParameterSamples ==
    { [calib |-> 600 * SecondsDen, power |-> 10 * SecondsDen, scale |-> 15, offset |-> 50, impact |-> 20],
      [calib |-> 6, power |-> 4, scale |-> 15, offset |-> 50, impact |-> 20],
      [calib |-> 5, power |-> 3, scale |-> 15, offset |-> 50, impact |-> 20],
      [calib |-> 2, power |-> 1, scale |-> 15, offset |-> 50, impact |-> 20],
      [calib |-> 1, power |-> 2, scale |-> 15, offset |-> 50, impact |-> 20] }

\* what is_prepared / get_current_board_data answer on one tick, and the
\* number of samples of the three windows when they answer with data
Polls ==
    { [status |-> "not_prepared",  eeg |-> 0,   gyro |-> 0,  ppg |-> 0],
      [status |-> "invalid_args",  eeg |-> 0,   gyro |-> 0,  ppg |-> 0],
      [status |-> "other_error",   eeg |-> 0,   gyro |-> 0,  ppg |-> 0],
      [status |-> "ok",            eeg |-> 256, gyro |-> 52, ppg |-> 0],
      [status |-> "ok",            eeg |-> 0,   gyro |-> 52, ppg |-> 64],
      [status |-> "ok",            eeg |-> 256, gyro |-> 0,  ppg |-> 64],
      [status |-> "ok",            eeg |-> 255, gyro |-> 52, ppg |-> 64],
      [status |-> "ok",            eeg |-> 256, gyro |-> 52, ppg |-> 64] }

\* band powers of one channel: ratio 1, ratio 2, and a zero gamma power
B1 == [theta |-> 1, alpha |-> 1, beta |-> 2, gamma |-> 1]
B2 == [theta |-> 1, alpha |-> 1, beta |-> 4, gamma |-> 1]
B0 == [theta |-> 1, alpha |-> 1, beta |-> 2, gamma |-> 0]
BandSamples == {B1, B2, B0}
\* np.var of a raw slice: at the threshold (good) and just above it (bad)
VarianceSamples == {20000, 20001}

\* the EEG contents a tick of the dashboard is run on
VariancePatterns ==
    { [c \in SignalChannels |-> IF c \in bad THEN 20001 ELSE 20000] :
        bad \in {{}, {1}, {1, 2, 3, 4}} }
BandPatterns ==
    { [c \in SignalChannels |-> B1],
      [c \in SignalChannels |-> B2],
      [c \in SignalChannels |-> IF c = 2 THEN B0 ELSE B1] }
\* mean absolute gyro sample
GyroSamples == {25}

(***************************************************************************)
(* State.                                                                  *)
(***************************************************************************)
VARIABLES
    calib_length, hist_length, brain_scale, brain_center, head_impact,
    engagement_calib, engagement_hist, engagement, power_metrics,
    stdout,      \* the raw indices print(engagement_idx) has written
    outlet,      \* outlet_transmit: the samples pushed so far and the latest
    started,     \* run() has started the timer and entered exec_()
    stack,       \* the timers whose _update slot is running, innermost last
    ticks,       \* timer timeouts delivered
    poll,        \* what the board answered on the latest tick
    exit,        \* where the latest _update left off
    eeg_data,    \* the EEG window RawEngagementIdx is applied to
    engagement_idx

config  == <<calib_length, hist_length, brain_scale, brain_center, head_impact>>
metrics == <<engagement_calib, engagement_hist, engagement, power_metrics>>
output  == <<stdout, outlet>>
sched   == <<started, stack, ticks, poll, exit>>
probe   == <<eeg_data, engagement_idx>>
vars    == <<config, metrics, output, sched, probe>>

NoWindow == [cols |-> 0,
             variance |-> [c \in SignalChannels |-> 0],
             bands |-> [c \in SignalChannels |-> B1]]

\* __init__, lines 45-92
Init ==
    /\ calib_length = ToTicks(600 * SecondsDen)
    /\ hist_length = ToTicks(10 * SecondsDen)
    /\ brain_scale = 15
    /\ brain_center = 50
    /\ head_impact = 20
    /\ engagement_calib = <<0, RawUnit>>
    /\ engagement_hist = <<0, NormUnit>>
    /\ engagement = 0
    /\ power_metrics = 0
    /\ stdout = <<>>
    /\ outlet = [pushed |-> 0, sample |-> 0]
    /\ started = FALSE
    /\ stack = <<>>
    /\ ticks = 0
    /\ poll = [status |-> "none", eeg |-> 0, gyro |-> 0, ppg |-> 0]
    /\ exit = "none"
    /\ eeg_data = NoWindow
    /\ engagement_idx = 0

\* set_parameters, lines 109-128
SetParameters(calib_s, power_s, scale, offset, impact) ==
    /\ calib_length' = ToTicks(calib_s)
    /\ hist_length' = ToTicks(power_s)
    /\ brain_scale' = scale
    /\ brain_center' = offset
    /\ head_impact' = impact
    /\ UNCHANGED <<metrics, output, sched, probe>>

\* set_parameters before the thread is started
Configure ==
    /\ ~started
    /\ \E a \in ParameterSamples :
          SetParameters(a.calib, a.power, a.scale, a.offset, a.impact)

\* set_parameters from another thread while the dashboard runs
Reconfigure ==
    /\ started
    /\ \E a \in ParameterSamples :
          SetParameters(a.calib, a.power, a.scale, a.offset, a.impact)

\* run, lines 94-107
Run ==
    /\ ~started
    /\ started' = TRUE
    /\ UNCHANGED <<config, metrics, output, stack, ticks, poll, exit, probe>>

\* variant: a second timer is connected to _update
TwoTimers == 1 + 1

\* run creates one QTimer (line 104)
NumTimers == 1
Timers == 1..NumTimers

Active == {stack[i] : i \in 1..Len(stack)}

\* Qt delivers a timeout from the event loop: exec_() (no slot running) or
\* processEvents() at line 450 (the innermost slot paused there).  A timer
\* whose slot is running is not activated again until the slot returns.
Timeout(t) ==
    /\ started
    /\ t \in Timers
    /\ t \notin Active
    /\ ticks < MaxTicks
    /\ ticks' = ticks + 1

\* a return before anything is computed: lines 241, 256, 262
Return ==
    UNCHANGED <<metrics, output, stack>>

\* lines 239-241
UpdateNotPrepared(t) ==
    /\ Timeout(t)
    /\ \E p \in Polls : p.status = "not_prepared" /\ poll' = p
    /\ exit' = "return_241"
    /\ Return
    /\ UNCHANGED <<config, started, probe>>

\* variant: the handler re-raises INVALID_ARGUMENTS_ERROR as well
UpdateTransientErrorRaised(t) ==
    /\ Timeout(t)
    /\ \E p \in Polls : p.status = "invalid_args" /\ poll' = p
    /\ exit' = "raise_258"
    /\ UNCHANGED <<config, metrics, output, stack, started, probe>>

\* lines 243-256
UpdateTransientError(t) ==
    /\ Timeout(t)
    /\ \E p \in Polls : p.status = "invalid_args" /\ poll' = p
    /\ exit' = "return_256"
    /\ Return
    /\ UNCHANGED <<config, started, probe>>

\* lines 257-258
UpdateOtherError(t) ==
    /\ Timeout(t)
    /\ \E p \in Polls : p.status = "other_error" /\ poll' = p
    /\ exit' = "raise_258"
    /\ UNCHANGED <<config, metrics, output, stack, started, probe>>

\* line 261: len() of the two 2-d arrays is their number of rows, which the
\* board description fixes; len() of the 1-d PPG row is its sample count
EegRows == Len(eeg_channels) + 1
GyroRows == 3
NoData(p) == EegRows < 1 \/ GyroRows < 1 \/ p.ppg < 1

\* lines 260-262
UpdateEmpty(t) ==
    /\ Timeout(t)
    /\ \E p \in Polls : p.status = "ok" /\ NoData(p) /\ poll' = p
    /\ exit' = "return_262"
    /\ Return
    /\ UNCHANGED <<config, started, probe>>

\* line 343: DataFilter.detrend rejects an EEG row without samples with a
\* BrainFlowError, which nothing catches
UpdateEmptyEeg(t) ==
    /\ Timeout(t)
    /\ \E p \in Polls : p.status = "ok" /\ ~NoData(p) /\ p.eeg = 0 /\ poll' = p
    /\ exit' = "raise_343"
    /\ UNCHANGED <<config, metrics, output, stack, started, probe>>

\* lines 417-448, on the raw index idx and the head movement hm
Publish(idx, hm) ==
    LET calib == CalibAppend(engagement_calib, idx, calib_length)
        z     == Normalise(calib, idx, brain_scale, brain_center)
        hist  == Append(HistEvict(engagement_hist, hist_length), z)
        eng   == WeightedMean(hist)
        pm    == PowerMetric(eng, hm, head_impact)
    IN  /\ stdout' = Append(stdout, idx)
        /\ engagement_calib' = calib
        /\ engagement_hist' = hist
        /\ engagement' = eng
        /\ power_metrics' = pm
        /\ outlet' = [pushed |-> outlet.pushed + 1, sample |-> pm]

\* lines 264-450, up to the call of processEvents
UpdateCompute(t) ==
    /\ Timeout(t)
    /\ \E p \in Polls, v \in VariancePatterns, b \in BandPatterns, g \in GyroSamples :
          /\ p.status = "ok" /\ ~NoData(p) /\ p.eeg > 0
          /\ poll' = p
          /\ Publish(RawEngagementIdx([cols |-> p.eeg, variance |-> v, bands |-> b]),
                     HeadMovement([cols |-> p.gyro, mean_abs |-> g]))
    /\ stack' = Append(stack, t)
    /\ exit' = "pump_450"
    /\ UNCHANGED <<config, started, probe>>

\* line 450: processEvents returns, and with it _update
UpdateReturn ==
    /\ stack # <<>>
    /\ stack' = SubSeq(stack, 1, Len(stack) - 1)
    /\ exit' = "return_450"
    /\ UNCHANGED <<config, metrics, output, started, ticks, poll, probe>>

Update ==
    \E t \in Timers :
        \/ UpdateNotPrepared(t)
        \/ UpdateTransientError(t)
        \/ UpdateOtherError(t)
        \/ UpdateEmpty(t)
        \/ UpdateEmptyEeg(t)
        \/ UpdateCompute(t)

Next ==
    \/ Configure
    \/ Run
    \/ Reconfigure
    \/ Update
    \/ UpdateReturn

Spec == Init /\ [][Next]_vars

\* the dashboard with its parameters fixed once the thread runs
NextFixed ==
    \/ Configure
    \/ Run
    \/ Update
    \/ UpdateReturn

SpecFixed == Init /\ [][NextFixed]_vars

(***************************************************************************)
(* The raw engagement index as a function of one EEG window: every window  *)
(* over the sample sets, and the step that computes its index.             *)
(***************************************************************************)
IndexWindows ==
    [cols : {255, 256},
     variance : [SignalChannels -> VarianceSamples],
     bands : [SignalChannels -> BandSamples]]

InitIndex ==
    /\ calib_length = ToTicks(600 * SecondsDen)
    /\ hist_length = ToTicks(10 * SecondsDen)
    /\ brain_scale = 15
    /\ brain_center = 50
    /\ head_impact = 20
    /\ engagement_calib = <<0, RawUnit>>
    /\ engagement_hist = <<0, NormUnit>>
    /\ engagement = 0
    /\ power_metrics = 0
    /\ stdout = <<>>
    /\ outlet = [pushed |-> 0, sample |-> 0]
    /\ started = TRUE
    /\ stack = <<>>
    /\ ticks = 0
    /\ poll = [status |-> "ok", eeg |-> 0, gyro |-> 0, ppg |-> 0]
    /\ exit = "none"
    /\ eeg_data \in IndexWindows
    /\ engagement_idx = 0

\* lines 264-413 on eeg_data
ComputeIndex ==
    /\ exit = "none"
    /\ engagement_idx' = RawEngagementIdx(eeg_data)
    /\ exit' = "print_413"
    /\ UNCHANGED <<config, metrics, output, started, stack, ticks, poll, eeg_data>>

NextIndex == ComputeIndex

SpecIndex == InitIndex /\ [][NextIndex]_vars

(***************************************************************************)
(* Claims.                                                                 *)
(***************************************************************************)
LastN(s, n) == SubSeq(s, Len(s) - Min(n, Len(s)) + 1, Len(s))
Last(s) == s[Len(s)]
Constant(s) == \A i \in 1..Len(s) : s[i] = s[1]
TickStep == ticks' = ticks + 1

\* C1: a tick on which the board is not prepared, or on which pulling the
\* data raises INVALID_ARGUMENTS_ERROR, returns without raising and leaves
\* engagement_calib, engagement_hist, engagement, power_metrics and the
\* outlet as they were.
C1_SkippedTickChangesNothing ==
    [][ (TickStep /\ poll'.status \in {"not_prepared", "invalid_args"})
        => /\ exit' \in {"return_241", "return_256"}
           /\ UNCHANGED <<engagement_calib, engagement_hist, engagement,
                          power_metrics, outlet, stdout>> ]_vars

\* C1 witness: such a tick after the histories have taken data
C1_Witness ==
    /\ exit \in {"return_241", "return_256"}
    /\ poll.status \in {"not_prepared", "invalid_args"}
    /\ Len(stdout) >= 1

\* C2 (as claimed, for every capacity that holds the two seeds): the length
\* of engagement_hist never exceeds hist_length.
C2_HistWithinCapacity ==
    hist_length >= 2 => Len(engagement_hist) <= hist_length

\* C3 (as claimed): the length of engagement_calib never exceeds
\* calib_length.
C3_CalibWithinCapacity ==
    Len(engagement_calib) <= calib_length

\* C3 (amended): with calib_length >= 2 the seeded history is within
\* calib_length, and no step takes engagement_calib from within
\* calib_length to beyond it unless set_parameters sets calib_length below
\* the current length.
C3_CalibStaysWithinCapacity ==
    /\ [](stdout = <<>> /\ calib_length >= 2 => Len(engagement_calib) <= calib_length)
    /\ [][ (Len(engagement_calib) <= calib_length /\ Len(engagement_calib) <= calib_length')
           => Len(engagement_calib') <= calib_length' ]_vars

\* C3 witness: the history is full and a tick has evicted from it
C3_Witness ==
    /\ calib_length = 3
    /\ Len(engagement_calib) = 3
    /\ Len(stdout) >= 2

\* C4 (as claimed, for its zero-variance case): a tick that has data in
\* every window and completes calib_length >= 2 consecutive ticks of raw
\* index 0, so that every element of engagement_calib is 0, pushes a finite
\* sample, or none.
C4_ZeroVarianceGuarded ==
    ( /\ exit = "pump_450"
      /\ poll.gyro > 0
      /\ calib_length >= 2
      /\ Len(stdout) >= calib_length
      /\ \A i \in 1..Len(stdout) : i > Len(stdout) - calib_length => stdout[i] = 0
      /\ Constant(engagement_calib) )
    => IsFinite(outlet.sample)

\* C5 (as claimed): a tick whose EEG, motion or PPG window has no samples,
\* or whose EEG slice is shorter than psd_size, pushes nothing and leaves
\* both histories as they were.
C5_EmptyOrShortWindowAborts ==
    [][ ( /\ TickStep
          /\ poll'.status = "ok"
          /\ \/ poll'.eeg = 0 \/ poll'.gyro = 0 \/ poll'.ppg = 0
             \/ PmSliceLen(poll'.eeg) < psd_size )
        => UNCHANGED <<engagement_calib, engagement_hist, outlet>> ]_vars

\* C6 (as claimed, for finite raw indices and calib_length >= 2): every
\* value a tick appends to engagement_hist lies in [0.05, 1.0].
C6_AppendedValueClipped ==
    (outlet.pushed > 0 /\ AllFinite(stdout) /\ calib_length >= 2) =>
        /\ Last(engagement_hist) >= (5 * NormUnit) \div 100
        /\ Last(engagement_hist) <= NormUnit

\* C7 (as claimed): once calib_length ticks have completed, engagement_calib
\* holds exactly the calib_length most recent raw indices, in arrival order.
C7_FifoAsClaimed ==
    Len(stdout) >= calib_length =>
        /\ Len(engagement_calib) = calib_length
        /\ engagement_calib = LastN(stdout, calib_length)

\* C7 (amended): for calib_length >= 2 that is not changed once the ticks
\* run, engagement_calib is always the calib_length most recent elements of
\* the seeds 0, 1 followed by the raw indices in arrival order; so once
\* calib_length ticks have completed it holds exactly the calib_length most
\* recent raw indices.
C7_Fifo ==
    calib_length >= 2 =>
        /\ engagement_calib = LastN(<<0, RawUnit>> \o stdout, calib_length)
        /\ Len(stdout) >= calib_length =>
              /\ Len(engagement_calib) = calib_length
              /\ engagement_calib = LastN(stdout, calib_length)

\* C7 witness: more ticks than the capacity have completed
C7_Witness ==
    /\ calib_length >= 2
    /\ Len(stdout) > calib_length
    /\ ~Constant(stdout)

RECURSIVE SumRatios(_, _)
SumRatios(chs, w) ==
    IF chs = {} THEN 0
    ELSE LET c == CHOOSE x \in chs : TRUE
         IN  FAdd(BandRatio(w.bands[c]), SumRatios(chs \ {c}, w))

\* C8: the raw engagement index is 0 when all 4 signal channels are bad;
\* otherwise it is the sum of (beta / (theta + alpha)) / gamma over the
\* signal channels that are not bad and have at least psd_size samples,
\* divided by 4 minus the number of bad channels.
C8_RawIndex ==
    exit = "print_413" =>
        LET bad  == BadChannels(eeg_data.variance)
            good == {c \in SignalChannels \ bad : PmSliceLen(eeg_data.cols) >= psd_size}
        IN  engagement_idx =
                IF Cardinality(bad) = 4 THEN 0
                ELSE IF IsFinite(SumRatios(good, eeg_data))
                     THEN SumRatios(good, eeg_data) \div (4 - Cardinality(bad))
                     ELSE SumRatios(good, eeg_data)

\* C8 witness: an index of some good and some bad channels
C8_Witness ==
    /\ exit = "print_413"
    /\ Cardinality(BadChannels(eeg_data.variance)) \in 1..3
    /\ engagement_idx > 0

C10_AtLeastTwoElements ==
    /\ Len(engagement_calib) >= 2
    /\ Len(engagement_hist) >= 2
    /\ SumWeight(engagement_hist) >= 1

\* C10 witness: ticks have completed with both capacities below 2
C10_Witness ==
    /\ calib_length <= 1
    /\ hist_length <= 1
    /\ outlet.pushed >= 2

\* C11: no step shortens engagement_calib or engagement_hist; a completed
\* tick appends one element to each list and removes at most one, so each
\* length stays or grows by one; and a list that is longer than its capacity
\* when a completed tick starts (set_parameters lowered the capacity below
\* its length) is still longer than the capacity when the tick ends.
C11_LengthsNeverDecrease ==
    [][ /\ Len(engagement_calib') >= Len(engagement_calib)
        /\ Len(engagement_hist') >= Len(engagement_hist)
        /\ (TickStep /\ exit' = "pump_450") =>
              /\ Len(engagement_calib') \in
                    {Len(engagement_calib), Len(engagement_calib) + 1}
              /\ Len(engagement_hist') \in
                    {Len(engagement_hist), Len(engagement_hist) + 1}
              /\ engagement_calib'[Len(engagement_calib')] = Last(stdout')
              /\ (Len(engagement_calib) > calib_length =>
                    /\ Len(engagement_calib') = Len(engagement_calib)
                    /\ Len(engagement_calib') > calib_length')
              /\ (Len(engagement_hist) > hist_length =>
                    /\ Len(engagement_hist') = Len(engagement_hist)
                    /\ Len(engagement_hist') > hist_length')
      ]_vars

\* C11 witness: three ticks have completed and engagement_calib holds 4
\* elements, so the third tick ran with a capacity of at most 3 set below
\* the 4 elements the list already had, and the list kept its length;
\* engagement_hist likewise is more than one element above its capacity
C11_Witness ==
    /\ exit = "pump_450"
    /\ Len(stdout) = 3
    /\ calib_length = 2
    /\ Len(engagement_calib) = 4
    /\ Len(engagement_hist) > hist_length + 1

\* C12: after a completed tick whose clipped value is finite (head movement
\* defined, raw indices finite, calib_length at least 2), the seed 0 is at
\* index 0 of engagement_hist or gone, the weighted mean lies in [0.05, 1.0]
\* and the pushed metric lies in [0.05, 1.0 + head_impact].
C12_MetricInRange ==
    ( /\ exit = "pump_450"
      /\ outlet.pushed > 0
      /\ poll.gyro > 0
      /\ calib_length >= 2
      /\ AllFinite(stdout)
      /\ IsFinite(Last(engagement_hist)) )
    => /\ \A i \in 2..Len(engagement_hist) : engagement_hist[i] # 0
       /\ engagement >= (5 * NormUnit) \div 100
       /\ engagement <= NormUnit
       /\ outlet.sample >= (5 * NormUnit) \div 100
       /\ outlet.sample <= NormUnit + head_impact

=============================================================================
